---- MODULE Spec2Model ----
(***************************************************************************)
(* Model of the cross-runtime `serve` normalisation layer                  *)
(* (src/unnamed/part_002): the dispatcher, the three engine bindings       *)
(* (nodeServe, denoServe, bunServe), the upgrade path and the socket       *)
(* event wiring.  The engines themselves (node:http + ws, Deno.serve,      *)
(* Bun.serve) are the environment: they deliver requests and socket        *)
(* notifications; every action below is one callback of the source.       *)
(***************************************************************************)
EXTENDS Integers, Sequences, FiniteSets, TLC

\* ---------------------------------------------------------------- bounds
MaxReq == 2        \* connections / HTTP exchanges per server
MaxMsgs == 2       \* inbound frames the peers send in total
MaxClose == 2      \* calls of close() on the server handle
MaxChunks == 2     \* chunks a response body stream yields
MaxSends == 2      \* frames the socket handler sends in total

Req == 1..MaxReq
Context(r) == r                  \* the value the handler passes to upgradeToWebSocket
                                 \* for exchange r: one per exchange
Payloads == {[kind |-> "text", content |-> "m"]}   \* inbound frames

\* ------------------------------------------------------- program constants
Node == "node"
Deno == "deno"
Bun == "bun"
Unknown == "unknown"
Browser == "browser"
Runtime == {Node, Deno, Bun, Unknown, Browser}

Open == "open"
Message == "message"
Close == "close"
Error == "error"
WebsocketEventType == {Message, Open, Close, Error}

\* RuntimeWebSocketReadyState = 0 | 1 | 2 | 3
CONNECTING == 0
OPEN == 1
CLOSING == 2
CLOSED == 3
RuntimeWebSocketReadyState == {CONNECTING, OPEN, CLOSING, CLOSED}

NoSocket == -1       \* no native socket exists for the exchange
TypeError == -2      \* outcome of calling a member that is not a function
Undefined == 0       \* the JavaScript value undefined
NoCall == -1         \* the handler did not call upgradeToWebSocket
NoData == [kind |-> "none", content |-> ""]   \* an event without data
NoPort == -1         \* options.port was not given
OK == 200            \* status of a Response made without a status
InternalServerError == 500

VARIABLES
  runtime,           \* result of getRuntime()
  wsHandlerSet,      \* options.wsHandler was supplied to serve
  options,           \* the other IServeOptions, the Responses options.handler
                     \* returns and the environment serve is called in
  srv,               \* init | binding | listening | closed | failed | crashed
  listener,          \* the engine's listener and the IServer handle
  res,               \* per HTTP exchange: what was written to the client
  req,               \* per HTTP exchange: client request, handler call, wire
  sock,              \* per connection: the engine's native socket
  log,               \* per connection: the calls options.wsHandler received
  connectedClients,  \* the Set kept by the broadcasting wsHandler
  bcasts             \* the broadcasts that wsHandler performed

vars == <<runtime, wsHandlerSet, options, srv, listener, req, res, sock, log,
          connectedClients, bcasts>>

\* ------------------------------------------------------------------ state
NoWs == [conn |-> 0, id |-> 0, fn |-> FALSE, snap |-> 0]   \* no object yet
NoRequest == [scheme |-> "none", method |-> "none", headers |-> {}]
NoClose == [code |-> Undefined, reason |-> ""]             \* close() / no close

ReqInit ==
  [phase |-> "idle",        \* idle | sent | done
   upg |-> FALSE,           \* the client asked for a WebSocket upgrade
   called |-> NoCall,       \* argument of the handler's upgradeToWebSocket call
   ret |-> "none",          \* none | true | false | threw : what the call gave
   upgradeData |-> Undefined, \* (req as any).upgradeData on Node
   threw |-> FALSE,         \* the handler threw or returned a rejected promise
   wire |-> "none",         \* none | handler | upgrade101 | error500
   method |-> "GET",        \* request method
   sentBody |-> <<>>,       \* the chunks of the request body, as the client sent them
   body |-> <<>>,           \* bytes of the body of the Request the handler got
   canon |-> NoRequest,     \* URL scheme, method and headers of that Request
   calls |-> 0,             \* invocations of options.handler for the request
   bridge |-> "none",       \* Node, body notifications: none | wire |
                            \* accumulating | sealed | failed
   chunks |-> <<>>,         \* Node: the chunks the "data" listener has collected
   arrived |-> 0,           \* Node: "data" notifications delivered
   ended |-> FALSE]         \* Node: the "end" notification was delivered

SockInit ==
  [state |-> NoSocket,      \* native readyState
   data |-> Undefined,      \* ws.data (Bun) / captured data (Deno) / context (Node)
   wrap |-> NoWs,           \* the IRuntimeWebSocket kept in the closure (Node, Deno)
   err |-> FALSE,           \* a socket-level error occurred
   byCall |-> FALSE,        \* the handshake was started by upgradeToWebSocket
   frames |-> <<>>,         \* the frames the peer has sent, in order
   buf |-> 0,               \* native count of bytes queued and not transmitted
   accepted |-> 0,          \* frames queued by send() while the socket was open
   late |-> 0,              \* send() calls on the closing or closed socket
   peerGot |-> 0,           \* frames the peer has received
   threwAt |-> NoSocket,    \* native state in which a send() threw
   closeArgs |-> NoClose,   \* what the handler passed to close()
   peerClose |-> NoClose]   \* code and reason of the close the peer observed

ResInit ==
  [heads |-> 0,             \* response heads (status line + headers) written
   status |-> "none",       \* none | handler | 500 : status of the last head
   state |-> "none",        \* none | streaming | engine | ended | destroyed
   sent |-> 0,              \* chunks the body stream has yielded
   srcErr |-> FALSE,        \* reading the body stream failed
   srcDone |-> FALSE,       \* the body stream has reported done
   kind |-> "none",         \* none | null | stream | echo : body of the Response
   source |-> <<>>,         \* echo: the chunks the request's body stream yields
   code |-> 0,              \* status code on the wire, 0: none
   headers |-> {},          \* header lines on the wire, <<name, value>>
   body |-> <<>>]           \* body bytes on the wire

ListenerInit ==
  [bound |-> 0,             \* port the engine's listener is bound to, 0: none
   addr |-> 0,              \* addr.port of the handle, 0: no handle
   resolved |-> FALSE,      \* the promise returned by serve has resolved
   rejected |-> FALSE,      \* the promise returned by serve was rejected
   secure |-> FALSE,        \* the server was created as an HTTPS server
   reusePort |-> FALSE,     \* the listener was started with port reuse
   refd |-> TRUE,           \* the listener keeps the process alive
   last |-> "none",         \* none | ref | unref : last keep-alive call
   closeCalls |-> 0,        \* calls of close() so far
   closeThrew |-> FALSE,    \* a close() call threw or rejected
   aborted |-> FALSE,       \* options.signal was aborted
   disposed |-> "none",     \* none | dispose | asyncDispose : last disposal
   disposals |-> 0,         \* disposals of the handle so far
   impl |-> "none"]         \* the implementation serve started

\* serve called with a handler alone, on a machine where every port is free.
DefaultOptions ==
  [port |-> NoPort,         \* options.port, NoPort: not given
   signal |-> FALSE,        \* options.signal was given
   aborted |-> FALSE,       \* options.signal is aborted already when serve is called
   tls |-> FALSE,           \* options.tls was given
   reusePort |-> FALSE,     \* options.reusePort
   portTaken |-> FALSE,     \* environment: another process holds options.port
   status |-> OK,           \* status of the Responses options.handler returns
   headers |-> <<>>]        \* headers the handler appended to its Responses

\* The options of a set of records over DefaultOptions: f gives the values of
\* the fields that vary.
OptionsWith(f) ==
  {[k \in DOMAIN DefaultOptions |->
      IF k \in DOMAIN g THEN g[k] ELSE DefaultOptions[k]] : g \in f}

\* The state every specification starts from, the options being chosen.
Start ==
  /\ srv = "init"
  /\ listener = ListenerInit
  /\ req = [r \in Req |-> ReqInit]
  /\ res = [r \in Req |-> ResInit]
  /\ sock = [r \in Req |-> SockInit]
  /\ log = [r \in Req |-> <<>>]
  /\ connectedClients = {}
  /\ bcasts = {}

Init ==
  /\ runtime \in Runtime
  /\ wsHandlerSet \in BOOLEAN
  /\ options = DefaultOptions
  /\ Start

\* ------------------------------------------------------------- dispatcher
\* Variant of the switch whose unmatched cases fall through to nodeServe.
ServeImpl_DefaultNode(rt) ==
  CASE rt = Deno -> "denoServe"
    [] rt = Bun -> "bunServe"
    [] OTHER -> "nodeServe"

\* serve: switch (getRuntime())
ServeImpl(rt) ==
  CASE rt = Node -> "nodeServe"
    [] rt = Deno -> "denoServe"
    [] rt = Bun -> "bunServe"
    [] OTHER -> "throw"

\* The port the engine binds for the `port` it is given: 0 asks for an
\* ephemeral port, and an engine that is given no port uses its own default.
EphemeralPort == 49152
DenoDefaultPort == 8000
BunDefaultPort == 3000
ListenPort(given, engineDefault) ==
  CASE given = NoPort -> engineDefault
    [] given = 0 -> EphemeralPort
    [] OTHER -> given

\* nodeServe: options.tls ? nodeHttps.createServer({key, cert})
\*                        : nodeHttp.createServer()
NodeCreateServer(o) == o.tls

\* nodeServe: server.listen(options.port || 0, ...)
NodeListenArg(port) == IF port = NoPort \/ port = 0 THEN 0 ELSE port

\* Variant of nodeServe that resolves with the handle without waiting for the
\* listen callback.
NodeListenStart_ResolveEarly ==
  [listener EXCEPT !.resolved = TRUE]

\* nodeServe up to `return listenPromise`: the server is created and
\* server.listen is called; nothing is bound or resolved yet.
NodeListenStart == [listener EXCEPT !.secure = NodeCreateServer(options)]

\* nodeServe, the callback of server.listen: the address is read from the
\* bound server and the promise resolves with the handle.
NodeOnListening ==
  /\ runtime = Node /\ srv = "binding" /\ ~options.portTaken
  /\ LET port == ListenPort(NodeListenArg(options.port), EphemeralPort)
     IN listener' = [listener EXCEPT !.bound = port, !.addr = port,
                                     !.resolved = TRUE]
  /\ srv' = "listening"
  /\ UNCHANGED <<runtime, wsHandlerSet, options, req, res, sock, log,
                 connectedClients, bcasts>>

\* nodeServe: the bind fails.  The server emits "error"; nodeServe has put no
\* listener for it on the server and its promise has no reject, so the error
\* is thrown as an uncaught exception and the promise is left as it is.
NodeListenError ==
  /\ runtime = Node /\ srv = "binding" /\ options.portTaken
  /\ srv' = "crashed"
  /\ UNCHANGED <<runtime, wsHandlerSet, options, listener, req, res, sock,
                 log, connectedClients, bcasts>>

\* denoServe: Deno.serve(params) binds at once, with params.cert/key and
\* params.reusePort; addr: server.addr.  When the bind fails Deno.serve
\* throws, which rejects the promise of the async denoServe.
DenoServeStart ==
  LET port == ListenPort(options.port, DenoDefaultPort)
  IN IF options.portTaken THEN [listener EXCEPT !.rejected = TRUE]
     ELSE [listener EXCEPT !.bound = port, !.addr = port, !.resolved = TRUE,
                           !.secure = options.tls,
                           !.reusePort = options.reusePort]

\* bunServe: Bun.serve(params) binds at once, with params.cert/key and
\* params.reusePort; addr.port: server.port.  When the bind fails Bun.serve
\* throws, which rejects the promise of the async bunServe.
BunServeStart ==
  LET port == ListenPort(options.port, BunDefaultPort)
  IN IF options.portTaken THEN [listener EXCEPT !.rejected = TRUE]
     ELSE [listener EXCEPT !.bound = port, !.addr = port, !.resolved = TRUE,
                           !.secure = options.tls,
                           !.reusePort = options.reusePort]

\* Variant of serve that starts a listener before it looks at the runtime.
ServeFailure_AfterBind == [listener EXCEPT !.bound = EphemeralPort]

\* serve, cases Runtime.Unknown and Runtime.Browser: `throw new Error(...)`
\* is all that runs; no implementation was called, nothing was created.
ServeFailure == listener

serve ==
  /\ srv = "init"
  /\ srv' = CASE ServeImpl(runtime) = "throw" -> "failed"
              [] ServeImpl(runtime) = "nodeServe" -> "binding"
              [] options.portTaken -> "failed"
              [] OTHER -> "listening"
  /\ listener' = CASE ServeImpl(runtime) = "nodeServe" ->
                          [NodeListenStart EXCEPT !.impl = "nodeServe"]
                   [] ServeImpl(runtime) = "denoServe" ->
                          [DenoServeStart EXCEPT !.impl = "denoServe"]
                   [] ServeImpl(runtime) = "bunServe" ->
                          [BunServeStart EXCEPT !.impl = "bunServe"]
                   [] OTHER -> ServeFailure
  /\ UNCHANGED <<runtime, wsHandlerSet, options, req, res, sock, log,
                 connectedClients, bcasts>>

\* The process runs and a request that was accepted can be served.
Running == {"listening", "closed"}

\* nodeServe: `if (options.wsHandler) wss = new WebSocketServer({ server })`
wss == wsHandlerSet

\* A client opens a connection and sends one request (environment).
ClientSend(r, u) ==
  /\ srv = "listening"
  /\ req[r].phase = "idle"
  /\ req' = [req EXCEPT ![r].phase = "sent", ![r].upg = u]
  /\ UNCHANGED <<runtime, wsHandlerSet, options, listener, res, srv, sock, log, connectedClients, bcasts>>

\* The request bodies clients send: up to MaxChunks chunks, all different.
Methods == {"GET", "POST"}
Bodies == {[i \in 1..n |-> <<i>>] : n \in 0..MaxChunks}

\* A client opens a connection and sends a request with method m whose body
\* arrives in the chunks b (environment).
ClientPost(r, m, b) ==
  /\ srv = "listening"
  /\ req[r].phase = "idle"
  /\ req' = [req EXCEPT ![r].phase = "sent", ![r].method = m,
                        ![r].sentBody = b]
  /\ UNCHANGED <<runtime, wsHandlerSet, options, listener, res, srv, sock, log,
                 connectedClients, bcasts>>

\* ------------------------------------------------- canonical socket adapter
\* An IRuntimeWebSocket object: `conn` is the native socket it forwards to,
\* `id` tells two objects over the same native socket apart, `fn` says
\* whether the readyState member is a function, `snap` is the member's value
\* when it is not.
RuntimeWs(r, i, f, s) == [conn |-> r, id |-> i, fn |-> f, snap |-> s]

\* bunWebsocketToRuntimeSocket builds a new object on every call; the n-th
\* event of a connection gets the n-th object.
bunWebsocketToRuntimeSocket(r) == RuntimeWs(r, Len(log[r]) + 1, TRUE, 0)

\* denoWebsocketToRuntimeSocket is called once, in upgradeToWebSocket.
denoWebsocketToRuntimeSocket(r) == RuntimeWs(r, 0, TRUE, 0)

\* nodeServe: `readyState: ws.readyState` copies the number at connection time.
nodeRuntimeWs(r, nativeState) == RuntimeWs(r, 0, FALSE, nativeState)

\* websocket.readyState() as a handler calls it, sk being the native sockets.
readyState(w, sk) == IF w.fn THEN sk[w.conn].state ELSE TypeError

\* ------------------------------------------------------- the socket handler
\* Connections whose Open was delivered and whose Close was not.
HasEvent(r, ev) == \E i \in 1..Len(log[r]) : log[r][i].event = ev
Tracked == {c \in Req : HasEvent(c, Open) /\ ~HasEvent(c, Close)}

\* options.wsHandler({websocket, event, data, context}): the handler of the
\* concurrent-connections test (add on open, delete on close, send to every
\* other tracked socket on message), which also calls websocket.readyState().
wsHandler(r, ev, w, ctx, d, sk) ==
  /\ log' = [log EXCEPT ![r] = Append(@,
               [event |-> ev, websocket |-> w, context |-> ctx, data |-> d,
                rs |-> readyState(w, sk)])]
  /\ connectedClients' =
       CASE ev = Open -> connectedClients \cup {w}
         [] ev = Close -> connectedClients \ {w}
         [] OTHER -> connectedClients
  /\ bcasts' =
       IF ev = Message
       THEN bcasts \cup {[from |-> r,
                          to |-> {c.conn : c \in connectedClients \ {w}},
                          tracked |-> Tracked]}
       ELSE bcasts

\* `options.wsHandler!(...)`: the call throws when no handler was supplied.
CallWsHandler(r, ev, w, ctx, d, sk) ==
  IF wsHandlerSet
  THEN wsHandler(r, ev, w, ctx, d, sk)
  ELSE UNCHANGED <<log, connectedClients, bcasts>>

NoEvent == UNCHANGED <<log, connectedClients, bcasts>>

\* The peers have frames left to send (bound of the model).
Messages ==
  Cardinality({p \in Req \X (1..MaxMsgs) : p[2] <= Len(sock[p[1]].frames)})
MoreMessages == Messages < MaxMsgs

\* ------------------------------------------------------------------- node
\* wss.on("connection"): the ws server answers every upgrade request of the
\* http server itself (it listens to the server's "upgrade" notification, so
\* "request" is not emitted for it) and hands over the open socket.
NodeOnConnection(r) ==
  /\ runtime = Node /\ srv \in Running /\ wss
  /\ req[r].phase = "sent" /\ req[r].upg
  /\ LET context == req[r].upgradeData
         runtimeWs == nodeRuntimeWs(r, OPEN)
         sk == [sock EXCEPT ![r] = [SockInit EXCEPT !.state = OPEN,
                                                   !.data = context,
                                                   !.wrap = runtimeWs]]
     IN /\ sock' = sk
        /\ req' = [req EXCEPT ![r].phase = "done", ![r].wire = "upgrade101"]
        /\ wsHandler(r, Open, runtimeWs, context, NoData, sk)
  /\ UNCHANGED <<runtime, wsHandlerSet, options, listener, res, srv>>

\* The `data` ws hands to a "message" listener for the frame f: a Buffer,
\* for a text frame as for a binary one (the listener's second argument,
\* isBinary, tells them apart).
WsMessageData(f) == [kind |-> "binary", content |-> f.content]

\* ws.on("message"): the listener takes `data` alone and passes it on.
NodeOnMessage(r, d) ==
  /\ runtime = Node
  /\ sock[r].state = OPEN /\ ~sock[r].err
  /\ MoreMessages
  /\ sock' = [sock EXCEPT ![r].frames = Append(@, d)]
  /\ wsHandler(r, Message, sock[r].wrap, sock[r].data, WsMessageData(d), sock)
  /\ UNCHANGED <<runtime, wsHandlerSet, options, listener, res, srv, req>>

\* Variant of ws.on("error") with the event tag of the neighbouring listener.
NodeOnError_CloseTag(r) ==
  /\ runtime = Node
  /\ sock[r].state \in {OPEN, CLOSING} /\ ~sock[r].err
  /\ LET sk == [sock EXCEPT ![r].err = TRUE, ![r].state = CLOSING]
     IN /\ sock' = sk
        /\ wsHandler(r, Close, sock[r].wrap, sock[r].data, NoData, sk)
  /\ UNCHANGED <<runtime, wsHandlerSet, options, listener, res, srv, req>>

\* ws.on("error"): ws reports the error once and starts closing.
NodeOnError(r) ==
  /\ runtime = Node
  /\ sock[r].state \in {OPEN, CLOSING} /\ ~sock[r].err
  /\ LET sk == [sock EXCEPT ![r].err = TRUE, ![r].state = CLOSING]
     IN /\ sock' = sk
        /\ wsHandler(r, Error, sock[r].wrap, sock[r].data, NoData, sk)
  /\ UNCHANGED <<runtime, wsHandlerSet, options, listener, res, srv, req>>

\* ws.on("close")
NodeOnClose(r) ==
  /\ runtime = Node
  /\ sock[r].state \in {OPEN, CLOSING}
  /\ LET sk == [sock EXCEPT ![r].state = CLOSED]
     IN /\ sock' = sk
        /\ wsHandler(r, Close, sock[r].wrap, sock[r].data, NoData, sk)
  /\ UNCHANGED <<runtime, wsHandlerSet, options, listener, res, srv, req>>

\* What a handler does with a request: it returns a Response without body
\* ("null"), with a body stream of its own ("stream") or with the request's
\* body as body ("echo"), or it throws / rejects ("throw").
HandlerResults == {"null", "stream", "throw", "echo"}

\* The bytes of a sequence of chunks, in order.
RECURSIVE Concat(_)
Concat(chunks) ==
  IF chunks = <<>> THEN <<>> ELSE Head(chunks) \o Concat(Tail(chunks))

\* The k-th chunk of a body stream the handler makes itself.
StreamChunk(k) == <<k>>

\* Iterating the Headers of a Response (response.headers): one entry per
\* name, the values of a repeated name joined into one value, except for
\* set-cookie, whose values stay entries of their own.  h is the list of
\* <<name, value>> the handler appended; a joined value is the sequence of
\* the values joined.
Values(h, name) ==
  LET s == SelectSeq(h, LAMBDA p : p[1] = name)
  IN [i \in 1..Len(s) |-> s[i][2]]
HeadersEntries(h) ==
  {<<h[i][1], <<h[i][2]>>>> : i \in {j \in 1..Len(h) : h[j][1] = "set-cookie"}}
    \cup
  {<<h[i][1], Values(h, h[i][1])>> : i \in {j \in 1..Len(h) : h[j][1] # "set-cookie"}}
HeadersList(h) ==
  [i \in 1..Len(h) |->
     IF h[i][1] = "set-cookie" THEN <<h[i][1], <<h[i][2]>>>>
     ELSE <<h[i][1], Values(h, h[i][1])>>]

\* Object.fromEntries(response.headers): an object has one value per key,
\* the value of the last entry with that key.
ObjectFromEntries(l) ==
  {l[i] : i \in {j \in 1..Len(l) :
                   \A k \in (j + 1)..Len(l) : l[k][1] # l[j][1]}}

\* What the echoing handler's Response yields: the body stream of the
\* canonical Request, which gives the bytes of the request in one chunk.
EchoSource(b) == IF b = <<>> THEN <<>> ELSE <<b>>

\* The body of the handler's Response: o as in HandlerResults, src the chunks
\* the body stream of the Request the handler got yields.
ResponseBody(w, o, src) ==
  [w EXCEPT !.kind = o, !.source = IF o = "echo" THEN src ELSE <<>>]

\* The engine (Deno, Bun) writes the handler's Response itself, status and
\* every header entry; a body stream is drained by the engine.
EngineWriteResponse(w, o, src) ==
  [ResponseBody(w, o, src) EXCEPT
     !.heads = @ + 1, !.status = "handler",
     !.code = options.status,
     !.headers = HeadersEntries(options.headers),
     !.state = IF o \in {"stream", "echo"} THEN "engine" ELSE "ended"]

\* The engine's (Deno, Bun) answer to a handler that throws: a 500 response.
EngineErrorResponse(w) ==
  [w EXCEPT !.heads = @ + 1, !.status = "500", !.state = "ended",
            !.code = InternalServerError]

\* Variant of res.writeHead that writes a head whatever was written before.
NodeWriteHead_Again(w, status, code) ==
  [w EXCEPT !.heads = @ + 1, !.status = status, !.code = code]

\* res.writeHead(code, ...): the head is written once; a call made after the
\* head was written throws (ERR_HTTP_HEADERS_SENT) and writes nothing.
NodeWriteHead(w, status, code) ==
  IF w.heads > 0 THEN w
  ELSE [w EXCEPT !.heads = @ + 1, !.status = status, !.code = code]

\* nodeServe: res.writeHead(response.status, response.statusText,
\* Object.fromEntries(response.headers)), then either the body stream is
\* piped into res or res.end() is called.
\* A Response whose body stream is locked (it was read already) makes
\* response.body.getReader() throw: the head is written, nothing follows.
NodeWriteResponse(w, o, src) ==
  [NodeWriteHead(ResponseBody(w, o, src), "handler", options.status) EXCEPT
     !.headers = ObjectFromEntries(HeadersList(options.headers)),
     !.state = CASE o \in {"stream", "echo"} -> "streaming"
                 [] o = "locked" -> "stalled"
                 [] OTHER -> "ended"]

\* Variant of the catch block that logs the error and writes nothing.
NodeCatch_LogOnly(w) == w

\* nodeServe catch: res.writeHead(500).end("Internal Server Error")
NodeCatch(w) ==
  LET h == NodeWriteHead(w, "500", InternalServerError)
  IN IF h = w THEN w ELSE [h EXCEPT !.state = "ended"]

\* The method-independent part of the native request on the wire.
NativeHeaders == {<<"host", "localhost">>, <<"content-type", "text/plain">>}

\* Variant of the URL scheme that ignores options.tls.
NodeScheme_Http(o) == "http"

\* incomingMessageToRequest: `${options.tls ? "https" : "http"}://...`
NodeScheme(o) == IF o.tls THEN "https" ELSE "http"

\* incomingMessageToRequest: new Request(url, { method, headers, ... }) with
\* `const { method } = req` and `headers = req.headers`.
NodeRequest(r) ==
  [scheme |-> NodeScheme(options), method |-> req[r].method,
   headers |-> NativeHeaders]

\* The Request Deno.serve and Bun.serve make themselves: its URL has the
\* scheme of the listener the request arrived on.
EngineRequest(r) ==
  [scheme |-> IF listener.secure THEN "https" ELSE "http",
   method |-> req[r].method, headers |-> NativeHeaders]

\* Variant of incomingMessageToRequest that starts collecting after the
\* first chunk has gone by.
incomingMessageToRequest_LateListener(method, chunks) ==
  IF method \notin {"GET", "HEAD"} /\ chunks # <<>>
  THEN Concat(Tail(chunks)) ELSE <<>>

\* incomingMessageToRequest: for a method other than GET and HEAD the "data"
\* chunks are collected in arrival order and, at "end", joined in a Blob that
\* becomes the body of the Request; a GET or HEAD Request is made without
\* body.
incomingMessageToRequest(method, chunks) ==
  IF method \notin {"GET", "HEAD"} THEN Concat(chunks) ELSE <<>>

\* A client opens a connection and sends the head of a request with method
\* m; its body follows in the chunks b (environment).
ClientStream(r, m, b) ==
  /\ srv = "listening"
  /\ req[r].phase = "idle"
  /\ req' = [req EXCEPT ![r].phase = "sent", ![r].method = m,
                        ![r].sentBody = b, ![r].bridge = "wire"]
  /\ UNCHANGED <<runtime, wsHandlerSet, options, listener, res, srv, sock, log,
                 connectedClients, bcasts>>

\* server.on("request") up to `await incomingMessageToRequest(req, options)`:
\* for GET and HEAD the promise is resolved with a Request at once, for any
\* other method the "data", "end" and "error" listeners are registered.
NodeRequestEvent(r) ==
  /\ runtime = Node /\ srv \in Running
  /\ req[r].phase = "sent" /\ req[r].bridge = "wire"
  /\ ~(req[r].upg /\ wss)
  /\ req' = [req EXCEPT ![r].bridge =
               IF req[r].method \in {"GET", "HEAD"} THEN "sealed"
               ELSE "accumulating"]
  /\ UNCHANGED <<runtime, wsHandlerSet, options, listener, res, srv, sock, log,
                 connectedClients, bcasts>>

\* Variant of the "data" listener that resolves the promise with what it has.
NodeOnData_Resolve(q, chunk) ==
  [q EXCEPT !.chunks = Append(@, chunk), !.arrived = @ + 1,
            !.bridge = "sealed"]

\* req.on("data", (chunk) => chunks.push(chunk))
NodeOnData(q, chunk) ==
  [q EXCEPT !.chunks = Append(@, chunk), !.arrived = @ + 1]

\* The next chunk of the request body arrives.
NodeReqData(r) ==
  /\ runtime = Node /\ srv \in Running
  /\ req[r].bridge = "accumulating"
  /\ req[r].arrived < Len(req[r].sentBody)
  /\ req' = [req EXCEPT ![r] = NodeOnData(@, req[r].sentBody[req[r].arrived + 1])]
  /\ UNCHANGED <<runtime, wsHandlerSet, options, listener, res, srv, sock, log,
                 connectedClients, bcasts>>

\* req.on("end"): the body is complete; the chunks collected are joined in a
\* Blob and the promise is resolved with the Request.
NodeReqEnd(r) ==
  /\ runtime = Node /\ srv \in Running
  /\ req[r].bridge = "accumulating"
  /\ req[r].arrived = Len(req[r].sentBody)
  /\ req' = [req EXCEPT ![r].bridge = "sealed", ![r].ended = TRUE]
  /\ UNCHANGED <<runtime, wsHandlerSet, options, listener, res, srv, sock, log,
                 connectedClients, bcasts>>

\* req.on("error", reject): the request fails before its end; the await in
\* server.on("request") throws and the catch block answers.
NodeReqError(r) ==
  /\ runtime = Node /\ srv \in Running
  /\ req[r].bridge = "accumulating"
  /\ req' = [req EXCEPT ![r].bridge = "failed", ![r].phase = "done",
                        ![r].wire = "error500"]
  /\ res' = [res EXCEPT ![r] = NodeCatch(@)]
  /\ UNCHANGED <<runtime, wsHandlerSet, options, listener, srv, sock, log,
                 connectedClients, bcasts>>

\* The chunks the Request is made of when the promise is resolved: the ones
\* collected, or the whole body when its arrival is not followed step by step.
NodeChunks(r) ==
  IF req[r].bridge = "none" THEN req[r].sentBody ELSE req[r].chunks

\* server.on("request") from the resolved promise on: the handler runs with
\* nodeServe's upgradeToWebSocket; c is the argument the handler passes to
\* it, NoCall when it does not call, and o is what the handler then does.
\* When the catch block itself throws (the head was written already), the
\* rejection of the callback is unhandled and ends the process.
NodeOnRequest(r, c, o) ==
  /\ runtime = Node /\ srv \in Running
  /\ req[r].phase = "sent" /\ req[r].bridge \in {"none", "sealed"}
  /\ ~(req[r].upg /\ wss)
  /\ (o = "throw") => (c = NoCall)
  /\ LET ret == CASE c = NoCall -> "none"
                  [] ~wss -> "threw"   \* throw new Error("WebSocket server ...")
                  [] OTHER -> "true"   \* upgradeData = data; return true
         threw == o = "throw" \/ ret = "threw"
         request == incomingMessageToRequest(req[r].method, NodeChunks(r))
     IN /\ req' = [req EXCEPT ![r] =
                [@ EXCEPT !.phase = "done", !.calls = @ + 1,
                          !.canon = NodeRequest(r), !.called = c, !.ret = ret,
                          !.upgradeData = IF ret = "true" THEN c ELSE @,
                          !.threw = threw,
                          !.wire = IF threw THEN "error500" ELSE "handler",
                          !.body = request]]
        /\ res' = [res EXCEPT ![r] =
                CASE threw -> NodeCatch(@)
                  [] o = "locked" ->
                       NodeCatch(NodeWriteResponse(@, o, EchoSource(request)))
                  [] OTHER -> NodeWriteResponse(@, o, EchoSource(request))]
        /\ srv' = IF o = "locked" /\ ~threw THEN "crashed" ELSE srv
  /\ UNCHANGED <<runtime, wsHandlerSet, options, listener, sock, log,
                 connectedClients, bcasts>>

\* What one read() of the response body's reader gives.
ReadResults == {"chunk", "done", "error"}

\* The body stream has a chunk left (a stream the handler makes itself is
\* bounded by the model), and the chunk it yields next.
HasChunk(w) ==
  IF w.kind = "echo" THEN w.sent < Len(w.source) ELSE w.sent < MaxChunks
AtEnd(w) == (w.kind = "echo") => (w.sent = Len(w.source))
NextChunk(w) ==
  IF w.kind = "echo" THEN w.source[w.sent + 1] ELSE StreamChunk(w.sent + 1)

\* Variant of the push that puts the chunk in front of what was written.
NodePush_Unshift(w, chunk) == [w EXCEPT !.body = chunk \o @]

\* this.push(Buffer.from(value)): the chunk goes through the pipe into res,
\* behind what was written before.
NodePush(w, chunk) == [w EXCEPT !.body = @ \o chunk]

\* The Readable nodeServe pipes into res, one read() at a time: a chunk is
\* pushed and written to res, the end of the body (push(null)) ends res
\* through the pipe, a rejected read() destroys the Readable
\* (this.destroy(error)).  pipe() does not pass the destruction of its source
\* on to res, which is neither ended nor destroyed, and the Readable has no
\* "error" listener, so its "error" event is thrown as an uncaught exception
\* of the process.
NodeRead(r, out) ==
  /\ runtime = Node /\ srv \in Running
  /\ res[r].state = "streaming"
  /\ (out = "chunk") => HasChunk(res[r])
  /\ (out = "done") => AtEnd(res[r])
  /\ res' = [res EXCEPT ![r] =
        CASE out = "chunk" -> [NodePush(@, NextChunk(@)) EXCEPT !.sent = @ + 1]
          [] out = "done" -> [@ EXCEPT !.srcDone = TRUE, !.state = "ended"]
          [] OTHER -> [@ EXCEPT !.srcErr = TRUE]]
  /\ srv' = IF out = "error" THEN "crashed" ELSE srv
  /\ UNCHANGED <<runtime, wsHandlerSet, options, listener, req, sock, log,
                 connectedClients, bcasts>>

\* Deno.serve and Bun.serve drain the body stream of the Response they were
\* given: each chunk is written, the end of the stream ends the response, and
\* a failed read aborts the connection.
EngineRead(r, out) ==
  /\ runtime \in {Deno, Bun} /\ srv \in Running
  /\ res[r].state = "engine"
  /\ (out = "chunk") => HasChunk(res[r])
  /\ (out = "done") => AtEnd(res[r])
  /\ res' = [res EXCEPT ![r] =
        CASE out = "chunk" ->
               [@ EXCEPT !.body = @ \o NextChunk(res[r]), !.sent = @ + 1]
          [] out = "done" -> [@ EXCEPT !.srcDone = TRUE, !.state = "ended"]
          [] OTHER -> [@ EXCEPT !.srcErr = TRUE, !.state = "destroyed"]]
  /\ UNCHANGED <<runtime, wsHandlerSet, options, listener, srv, req, sock, log,
                 connectedClients, bcasts>>

\* ------------------------------------------------------------------- deno
\* denoServe params.handler: the handler runs with denoServe's
\* upgradeToWebSocket.  Deno.upgradeWebSocket throws for a request that does
\* not ask for an upgrade (Deno.serve answers 500); otherwise the socket and
\* the listeners are created, true is returned and the engine's upgrade
\* response replaces the handler's (`stupidDenoResponseMember ?? response`).
DenoHandler(r, c, o) ==
  /\ runtime = Deno /\ srv \in Running
  /\ req[r].phase = "sent"
  /\ (o = "throw") => (c = NoCall)
  /\ IF c # NoCall /\ req[r].upg
     THEN /\ req' = [req EXCEPT ![r] =
                 [@ EXCEPT !.phase = "done", !.calls = @ + 1,
                           !.canon = EngineRequest(r), !.called = c, !.ret = "true",
                           !.wire = "upgrade101"]]
          /\ sock' = [sock EXCEPT ![r] =
                 [SockInit EXCEPT !.state = CONNECTING, !.data = c,
                                  !.wrap = denoWebsocketToRuntimeSocket(r),
                                  !.byCall = TRUE]]
          /\ res' = res
     ELSE /\ req' = [req EXCEPT ![r] =
                 CASE c # NoCall ->
                        [@ EXCEPT !.phase = "done", !.calls = @ + 1,
                           !.canon = EngineRequest(r), !.called = c,
                                  !.ret = "threw", !.threw = TRUE,
                                  !.wire = "error500"]
                   [] o = "throw" ->
                        [@ EXCEPT !.phase = "done", !.calls = @ + 1,
                           !.canon = EngineRequest(r), !.threw = TRUE,
                                  !.wire = "error500"]
                   [] OTHER ->
                        [@ EXCEPT !.phase = "done", !.calls = @ + 1,
                           !.canon = EngineRequest(r), !.wire = "handler",
                                  !.body = Concat(req[r].sentBody)]]
          /\ res' = [res EXCEPT ![r] =
                 IF c # NoCall \/ o = "throw"
                 THEN EngineErrorResponse(@)
                 ELSE EngineWriteResponse(@, o, req[r].sentBody)]
          /\ sock' = sock
  /\ UNCHANGED <<runtime, wsHandlerSet, options, listener, srv, log,
                 connectedClients, bcasts>>

\* denoSocket.addEventListener("open", ...)
DenoOnOpen(r) ==
  /\ runtime = Deno
  /\ sock[r].state = CONNECTING
  /\ LET sk == [sock EXCEPT ![r].state = OPEN]
     IN /\ sock' = sk
        /\ CallWsHandler(r, Open, sock[r].wrap, sock[r].data, NoData, sk)
  /\ UNCHANGED <<runtime, wsHandlerSet, options, listener, res, srv, req>>

\* denoSocket.addEventListener("message", ...)
DenoOnMessage(r, d) ==
  /\ runtime = Deno
  /\ sock[r].state = OPEN /\ ~sock[r].err
  /\ MoreMessages
  /\ sock' = [sock EXCEPT ![r].frames = Append(@, d)]
  /\ CallWsHandler(r, Message, sock[r].wrap, sock[r].data, d, sock)
  /\ UNCHANGED <<runtime, wsHandlerSet, options, listener, res, srv, req>>

\* The socket reports "error": denoServe registers no listener for it.
DenoOnError(r) ==
  /\ runtime = Deno
  /\ sock[r].state \in {OPEN, CLOSING} /\ ~sock[r].err
  /\ sock' = [sock EXCEPT ![r].err = TRUE, ![r].state = CLOSING]
  /\ NoEvent
  /\ UNCHANGED <<runtime, wsHandlerSet, options, listener, res, srv, req>>

\* denoSocket.addEventListener("close", ...)
DenoOnClose(r) ==
  /\ runtime = Deno
  /\ sock[r].state \in {OPEN, CLOSING}
  /\ LET sk == [sock EXCEPT ![r].state = CLOSED]
     IN /\ sock' = sk
        /\ CallWsHandler(r, Close, sock[r].wrap, sock[r].data, NoData, sk)
  /\ UNCHANGED <<runtime, wsHandlerSet, options, listener, res, srv, req>>

\* -------------------------------------------------------------------- bun
\* server.upgrade(request, {data}): true when the request asked for an
\* upgrade; it throws when Bun.serve got no `websocket` handlers.
ServerUpgrade(r) ==
  IF ~wsHandlerSet THEN "threw" ELSE IF req[r].upg THEN "true" ELSE "false"

\* bunServe upgradeToWebSocket: `server.upgrade(request, { data }); return true`
BunUpgradeToWebSocket(r) ==
  IF ServerUpgrade(r) = "threw" THEN "threw" ELSE "true"

\* bunServe params.fetch: the handler runs with bunServe's upgradeToWebSocket.
\* Bun drops the handler's Response for a request it has upgraded and answers
\* 500 when fetch throws.
BunFetch(r, c, o) ==
  /\ runtime = Bun /\ srv \in Running
  /\ req[r].phase = "sent"
  /\ (o = "throw") => (c = NoCall)
  /\ IF c # NoCall /\ ServerUpgrade(r) = "true"
     THEN /\ req' = [req EXCEPT ![r] =
                 [@ EXCEPT !.phase = "done", !.calls = @ + 1,
                           !.canon = EngineRequest(r), !.called = c,
                           !.ret = BunUpgradeToWebSocket(r),
                           !.wire = "upgrade101"]]
          /\ sock' = [sock EXCEPT ![r] =
                 [SockInit EXCEPT !.state = CONNECTING, !.data = c,
                                  !.byCall = TRUE]]
          /\ res' = res
     ELSE /\ LET threw == o = "throw" \/
                          (c # NoCall /\ BunUpgradeToWebSocket(r) = "threw")
             IN /\ req' = [req EXCEPT ![r] =
                      [@ EXCEPT !.phase = "done", !.calls = @ + 1,
                           !.canon = EngineRequest(r), !.called = c,
                                !.ret = IF c = NoCall THEN "none"
                                        ELSE BunUpgradeToWebSocket(r),
                                !.threw = threw,
                                !.wire = IF threw THEN "error500"
                                         ELSE "handler",
                                !.body = Concat(req[r].sentBody)]]
                /\ res' = [res EXCEPT ![r] =
                      IF threw THEN EngineErrorResponse(@)
                      ELSE EngineWriteResponse(@, o, req[r].sentBody)]
          /\ sock' = sock
  /\ UNCHANGED <<runtime, wsHandlerSet, options, listener, srv, log,
                 connectedClients, bcasts>>

\* Variant of websocket.open with the event tag of the neighbouring callback.
BunOnOpen_MessageTag(r) ==
  /\ runtime = Bun
  /\ sock[r].state = CONNECTING
  /\ LET sk == [sock EXCEPT ![r].state = OPEN]
     IN /\ sock' = sk
        /\ wsHandler(r, Message, bunWebsocketToRuntimeSocket(r), sock[r].data,
                     NoData, sk)
  /\ UNCHANGED <<runtime, wsHandlerSet, options, listener, res, srv, req>>

\* websocket.open
BunOnOpen(r) ==
  /\ runtime = Bun
  /\ sock[r].state = CONNECTING
  /\ LET sk == [sock EXCEPT ![r].state = OPEN]
     IN /\ sock' = sk
        /\ wsHandler(r, Open, bunWebsocketToRuntimeSocket(r), sock[r].data,
                     NoData, sk)
  /\ UNCHANGED <<runtime, wsHandlerSet, options, listener, res, srv, req>>

\* websocket.message
BunOnMessage(r, d) ==
  /\ runtime = Bun
  /\ sock[r].state = OPEN /\ ~sock[r].err
  /\ MoreMessages
  /\ sock' = [sock EXCEPT ![r].frames = Append(@, d)]
  /\ wsHandler(r, Message, bunWebsocketToRuntimeSocket(r), sock[r].data, d,
               sock)
  /\ UNCHANGED <<runtime, wsHandlerSet, options, listener, res, srv, req>>

\* A socket-level error: bunServe's `websocket` object has no callback for it.
BunOnError(r) ==
  /\ runtime = Bun
  /\ sock[r].state \in {OPEN, CLOSING} /\ ~sock[r].err
  /\ sock' = [sock EXCEPT ![r].err = TRUE, ![r].state = CLOSING]
  /\ NoEvent
  /\ UNCHANGED <<runtime, wsHandlerSet, options, listener, res, srv, req>>

\* websocket.close
BunOnClose(r) ==
  /\ runtime = Bun
  /\ sock[r].state \in {OPEN, CLOSING}
  /\ LET sk == [sock EXCEPT ![r].state = CLOSED]
     IN /\ sock' = sk
        /\ wsHandler(r, Close, bunWebsocketToRuntimeSocket(r), sock[r].data,
                     NoData, sk)
  /\ UNCHANGED <<runtime, wsHandlerSet, options, listener, res, srv, req>>

\* ------------------------------------------------ the socket's capabilities
\* IRuntimeWebSocket.close(code, reason) of each adapter: the arguments the
\* native close is called with.
bunRuntimeClose(code, reason) == [code |-> code, reason |-> reason]
denoRuntimeClose(code, reason) == [code |-> code, reason |-> reason]

\* Variant of nodeServe's close that calls the native close without arguments.
nodeRuntimeClose_NoArgs(code, reason) == NoClose

\* nodeServe runtimeWs.close: (...args) => ws.close(...args)
nodeRuntimeClose(code, reason) == [code |-> code, reason |-> reason]

\* The close frame the remote peer receives for a native close(code, reason):
\* the code and reason given, or no status (1005) when no code was given.
NoStatusReceived == 1005
PeerObserves(args) ==
  [code |-> IF args.code = Undefined THEN NoStatusReceived ELSE args.code,
   reason |-> args.reason]

\* IRuntimeWebSocket.close(code, reason) called by the socket handler: every
\* adapter forwards to the native close, which starts the closing handshake.
\* (A close started by the remote peer, or a lost connection, reaches the
\* server as the engine's close notification: the OnClose actions fire from
\* OPEN as well as from CLOSING.)
RuntimeWsClose(r, code, reason) ==
  /\ sock[r].state = OPEN
  /\ HasEvent(r, Open)
  /\ LET args == CASE runtime = Node -> nodeRuntimeClose(code, reason)
                   [] runtime = Deno -> denoRuntimeClose(code, reason)
                   [] OTHER -> bunRuntimeClose(code, reason)
     IN sock' = [sock EXCEPT ![r].state = CLOSING,
                             ![r].closeArgs = [code |-> code, reason |-> reason],
                             ![r].peerClose = PeerObserves(args)]
  /\ UNCHANGED <<runtime, wsHandlerSet, options, listener, res, srv, req, log,
                 connectedClients, bcasts>>

\* The native send of each engine on the socket s.  While the socket is open
\* the frame is queued.  On a closing or closed socket none of them throws:
\* ws counts the bytes as buffered and drops them (an error goes to the
\* callback of send, when one is given), Deno's WebSocket returns at once, and
\* Bun's ServerWebSocket drops the frame and returns 0.
WsSend(s) ==
  IF s.state = OPEN THEN [s EXCEPT !.buf = @ + 1, !.accepted = @ + 1]
  ELSE [s EXCEPT !.buf = @ + 1, !.late = @ + 1]
DenoSend(s) ==
  IF s.state = OPEN THEN [s EXCEPT !.buf = @ + 1, !.accepted = @ + 1]
  ELSE [s EXCEPT !.late = @ + 1]
BunSend(s) ==
  IF s.state = OPEN THEN [s EXCEPT !.buf = @ + 1, !.accepted = @ + 1]
  ELSE [s EXCEPT !.late = @ + 1]

\* IRuntimeWebSocket.send(data) of each adapter.
bunRuntimeSend(s) == BunSend(s)

\* Variant of Deno's adapter that refuses a socket that is not open.
denoRuntimeSend_OpenOnly(s) ==
  IF s.state = OPEN THEN DenoSend(s)
  ELSE [s EXCEPT !.late = @ + 1, !.threwAt = s.state]

\* denoWebsocketToRuntimeSocket: (...args) => denoWebsocket.send(...args)
denoRuntimeSend(s) == DenoSend(s)

\* nodeServe runtimeWs: (...args) => ws.send(...args)
nodeRuntimeSend(s) == WsSend(s)

\* The socket handler has frames left to send (bound of the model).
Queued ==
  Cardinality({p \in Req \X (1..MaxSends) :
                 p[2] <= sock[p[1]].accepted + sock[p[1]].late})
MoreSends == Queued < MaxSends

\* IRuntimeWebSocket.send(data) called by the socket handler, on a socket in
\* any state: every adapter forwards to the native send.
RuntimeWsSend(r) ==
  /\ HasEvent(r, Open)
  /\ MoreSends
  /\ sock' = [sock EXCEPT ![r] = CASE runtime = Node -> nodeRuntimeSend(@)
                                   [] runtime = Deno -> denoRuntimeSend(@)
                                   [] OTHER -> bunRuntimeSend(@)]
  /\ UNCHANGED <<runtime, wsHandlerSet, options, listener, res, srv, req, log,
                 connectedClients, bcasts>>

\* The engine transmits a queued frame of an open connection to the peer
\* (environment).
Flush(r) ==
  /\ sock[r].state = OPEN /\ sock[r].buf > 0
  /\ sock' = [sock EXCEPT ![r].buf = @ - 1, ![r].peerGot = @ + 1]
  /\ UNCHANGED <<runtime, wsHandlerSet, options, listener, res, srv, req, log,
                 connectedClients, bcasts>>

\* The native count of each engine for the socket s: ws keeps counting after
\* the close, Deno's bufferedAmount is 0 for a socket that is not open and
\* Bun's getBufferedAmount() is 0 for a closed one.
WsBufferedAmount(s) == s.buf
DenoBufferedAmount(s) == IF s.state = OPEN THEN s.buf ELSE 0
BunBufferedAmount(s) == IF s.state = CLOSED THEN 0 ELSE s.buf
NativeBufferedAmount(s) ==
  CASE runtime = Node -> WsBufferedAmount(s)
    [] runtime = Deno -> DenoBufferedAmount(s)
    [] OTHER -> BunBufferedAmount(s)

\* Variant of Bun's adapter that answers with the ready-state.
bunGetBufferedAmount_ReadyState(r, sk) == sk[r].state

\* bunWebsocketToRuntimeSocket: () => bunWebsocket.getBufferedAmount()
bunGetBufferedAmount(r, sk) == BunBufferedAmount(sk[r])

\* denoWebsocketToRuntimeSocket: () => denoWebsocket.bufferedAmount
denoGetBufferedAmount(r, sk) == DenoBufferedAmount(sk[r])

\* Variant of nodeServe's adapter that answers 0 for a closed socket.
nodeGetBufferedAmount_ZeroWhenClosed(r, sk) ==
  IF sk[r].state = CLOSED THEN 0 ELSE WsBufferedAmount(sk[r])

\* nodeServe runtimeWs: () => ws.bufferedAmount
nodeGetBufferedAmount(r, sk) == WsBufferedAmount(sk[r])

\* websocket.getBufferedAmount() as a handler calls it.
getBufferedAmount(w, sk) ==
  CASE runtime = Node -> nodeGetBufferedAmount(w.conn, sk)
    [] runtime = Deno -> denoGetBufferedAmount(w.conn, sk)
    [] OTHER -> bunGetBufferedAmount(w.conn, sk)

\* ------------------------------------------------------------- lifecycle
\* A stop that only closes the listener: exchanges in flight and open
\* sockets are left alone.
GracefulStop == [srv |-> "closed", req |-> req, res |-> res, sock |-> sock]

\* A stop that also closes the HTTP connections (exchanges in flight are cut)
\* and, when `sockets`, the open WebSocket connections.
ForcedStop(sockets) ==
  [srv |-> "closed",
   req |-> [r \in Req |-> IF req[r].phase = "sent"
                          THEN [req[r] EXCEPT !.phase = "aborted"]
                          ELSE req[r]],
   res |-> [r \in Req |-> IF res[r].state \in {"streaming", "engine"}
                          THEN [res[r] EXCEPT !.state = "destroyed"]
                          ELSE res[r]],
   sock |-> IF sockets
            THEN [r \in Req |-> IF sock[r].state = OPEN
                                THEN [sock[r] EXCEPT !.state = CLOSING]
                                ELSE sock[r]]
            ELSE sock]

\* nodeServe serverInterface.close: wss?.close(); server.close(() => resolve())
NodeClose == GracefulStop

\* nodeServe abort listener: wss?.close(); server.close()
NodeAbort == GracefulStop

\* bunServe stopServer: server.stop(true), true being closeActiveConnections.
BunStopServer == ForcedStop(TRUE)

\* denoServe close: server.shutdown(), the graceful stop of Deno.serve.
DenoClose == GracefulStop

\* denoServe `signal: options.signal`: Deno.serve stops forcefully on abort,
\* closing the listener and the HTTP connections.
DenoSignalAbort == ForcedStop(FALSE)

CloseEffect ==
  CASE runtime = Node -> NodeClose
    [] runtime = Deno -> DenoClose
    [] OTHER -> BunStopServer

AbortEffect ==
  CASE runtime = Node -> NodeAbort
    [] runtime = Deno -> DenoSignalAbort
    [] OTHER -> BunStopServer

\* Variant of close() that rejects with the error server.close reports for a
\* server that is not running.
CloseRejects_NotRunning == runtime = Node /\ srv = "closed"

\* Whether a close() call throws or rejects: no engine's stop throws for a
\* stopped server, and nodeServe's callback `() => resolve()` drops the error
\* argument server.close passes for a server that is not running.
CloseRejects == FALSE

\* Bun runs websocket.open in the turn of server.upgrade: no stop comes
\* between the two.
StopEnabled == (runtime = Bun) => \A r \in Req : sock[r].state # CONNECTING

\* IServer.close() called on the handle.
IfaceClose ==
  /\ listener.resolved /\ srv \in Running
  /\ listener.closeCalls < MaxClose
  /\ StopEnabled
  /\ LET e == CloseEffect
     IN /\ srv' = e.srv /\ req' = e.req /\ res' = e.res /\ sock' = e.sock
  /\ listener' = [listener EXCEPT !.closeCalls = @ + 1,
                                  !.closeThrew = @ \/ CloseRejects]
  /\ UNCHANGED <<runtime, wsHandlerSet, options, log, connectedClients, bcasts>>

\* options.signal is aborted (environment) and the abort wiring runs.
SignalAbort ==
  /\ options.signal /\ ~options.aborted /\ ~listener.aborted
  /\ listener.resolved /\ srv \in Running
  /\ StopEnabled
  /\ LET e == AbortEffect
     IN /\ srv' = e.srv /\ req' = e.req /\ res' = e.res /\ sock' = e.sock
  /\ listener' = [listener EXCEPT !.aborted = TRUE]
  /\ UNCHANGED <<runtime, wsHandlerSet, options, log, connectedClients, bcasts>>

\* Variant of nodeServe's disposers that lose the handle they are called on.
NodeDispose_Detached == [srv |-> srv, req |-> req, res |-> res, sock |-> sock]

\* nodeServe [Symbol.asyncDispose]: await this.close(); [Symbol.dispose]:
\* this.close().  `this` is the handle the disposer is called on.
NodeDispose == NodeClose

\* denoServe [Symbol.asyncDispose] / [Symbol.dispose]: return this.close()
DenoDispose == DenoClose

\* bunServe [Symbol.asyncDispose]: stopServer, [Symbol.dispose]: stopServer
BunDispose == BunStopServer

DisposeEffect ==
  CASE runtime = Node -> NodeDispose
    [] runtime = Deno -> DenoDispose
    [] OTHER -> BunDispose

\* The handle is disposed, as `using` / `await using` do at the end of the
\* block: kind is the disposer called.  Every disposer is a call of the
\* handle's close.
IfaceDispose(kind) ==
  /\ listener.resolved /\ srv \in Running
  /\ listener.closeCalls < MaxClose
  /\ StopEnabled
  /\ LET e == DisposeEffect
     IN /\ srv' = e.srv /\ req' = e.req /\ res' = e.res /\ sock' = e.sock
  /\ listener' = [listener EXCEPT !.closeCalls = @ + 1,
                                  !.closeThrew = @ \/ CloseRejects,
                                  !.disposed = kind, !.disposals = @ + 1]
  /\ UNCHANGED <<runtime, wsHandlerSet, options, log, connectedClients, bcasts>>

\* The promise close() returned: it resolves once the engine has stopped,
\* which on Node and Deno waits for the connections still open.
Drained ==
  \A r \in Req :
    /\ req[r].phase # "sent"
    /\ res[r].state \notin {"streaming", "engine"}
    /\ (runtime = Node) => sock[r].state \notin {CONNECTING, OPEN, CLOSING}
ClosePromise ==
  CASE listener.closeCalls = 0 -> "none"
    [] listener.closeThrew -> "rejected"
    [] runtime = Bun \/ Drained -> "resolved"
    [] OTHER -> "pending"

\* nodeServe `ref: server.ref, unref: server.unref`: the methods are taken off
\* the server, so a call through the handle runs with the handle as `this`
\* and marks the handle, not the server.
NodeKeepAlive(l, call) == [l EXCEPT !.last = call]

\* denoServe `ref: server.ref, unref: server.unref`: the methods of Deno's
\* server do not use `this`.
DenoKeepAlive(l, call) == [l EXCEPT !.last = call, !.refd = (call = "ref")]

\* bunServe `ref: server.ref, unref: server.unref`: the native methods taken
\* off the server reject a `this` that is not the server.
BunKeepAlive(l, call) == [l EXCEPT !.last = call]

\* IServer.ref() / IServer.unref() called on the handle.
IfaceKeepAlive(call) ==
  /\ listener.resolved /\ srv \in Running
  /\ listener' = CASE runtime = Node -> NodeKeepAlive(listener, call)
                   [] runtime = Deno -> DenoKeepAlive(listener, call)
                   [] OTHER -> BunKeepAlive(listener, call)
  /\ UNCHANGED <<runtime, wsHandlerSet, options, srv, req, res, sock, log,
                 connectedClients, bcasts>>

\* ------------------------------------------------------------ specification
Next ==
  \/ serve
  \/ NodeOnListening
  \/ \E r \in Req, u \in BOOLEAN : ClientSend(r, u)
  \/ \E r \in Req : NodeOnConnection(r)
  \/ \E r \in Req : \E c \in {Context(r), NoCall} : NodeOnRequest(r, c, "null")
  \/ \E r \in Req, d \in Payloads : NodeOnMessage(r, d)
  \/ \E r \in Req : NodeOnError(r)
  \/ \E r \in Req : NodeOnClose(r)
  \/ \E r \in Req : \E c \in {Context(r), NoCall} : DenoHandler(r, c, "null")
  \/ \E r \in Req : DenoOnOpen(r)
  \/ \E r \in Req, d \in Payloads : DenoOnMessage(r, d)
  \/ \E r \in Req : DenoOnError(r)
  \/ \E r \in Req : DenoOnClose(r)
  \/ \E r \in Req : \E c \in {Context(r), NoCall} : BunFetch(r, c, "null")
  \/ \E r \in Req : BunOnOpen(r)
  \/ \E r \in Req, d \in Payloads : BunOnMessage(r, d)
  \/ \E r \in Req : BunOnError(r)
  \/ \E r \in Req : BunOnClose(r)
  \/ \E r \in Req : RuntimeWsClose(r, Undefined, "")

Spec == Init /\ [][Next]_vars

\* The capabilities of the canonical socket, used by the socket handler on
\* connections in every state.
Codes == {4000, 4999}
Reasons == {"Custom close reason"}

InitSock ==
  /\ runtime \in Runtime
  /\ wsHandlerSet = TRUE
  /\ options = DefaultOptions
  /\ Start

NextSock ==
  \/ serve
  \/ NodeOnListening
  \/ \E r \in Req : ClientSend(r, TRUE)
  \/ \E r \in Req : NodeOnConnection(r)
  \/ \E r \in Req : NodeOnClose(r)
  \/ \E r \in Req : DenoHandler(r, Context(r), "null")
  \/ \E r \in Req : DenoOnOpen(r)
  \/ \E r \in Req : DenoOnClose(r)
  \/ \E r \in Req : BunFetch(r, Context(r), "null")
  \/ \E r \in Req : BunOnOpen(r)
  \/ \E r \in Req : BunOnClose(r)
  \/ \E r \in Req : RuntimeWsClose(r, Undefined, "")
  \/ \E r \in Req, code \in Codes, reason \in Reasons :
       RuntimeWsClose(r, code, reason)
  \/ \E r \in Req : RuntimeWsSend(r)
  \/ \E r \in Req : Flush(r)

SpecSock == InitSock /\ [][NextSock]_vars

\* Start, stop and keep-alive of the server, with exchanges and sockets in
\* flight.
Ports == {NoPort, 0, 8080}

InitLife ==
  /\ runtime \in Runtime
  /\ wsHandlerSet \in BOOLEAN
  /\ options \in OptionsWith([port : Ports, signal : BOOLEAN])
  /\ Start

NextLife ==
  \/ serve
  \/ NodeOnListening
  \/ \E r \in Req, u \in BOOLEAN : ClientSend(r, u)
  \/ \E r \in Req : NodeOnConnection(r)
  \/ \E r \in Req : \E c \in {Context(r), NoCall} : NodeOnRequest(r, c, "null")
  \/ \E r \in Req : NodeOnClose(r)
  \/ \E r \in Req : \E c \in {Context(r), NoCall} : DenoHandler(r, c, "null")
  \/ \E r \in Req : DenoOnOpen(r)
  \/ \E r \in Req : DenoOnClose(r)
  \/ \E r \in Req : \E c \in {Context(r), NoCall} : BunFetch(r, c, "null")
  \/ \E r \in Req : BunOnOpen(r)
  \/ \E r \in Req : BunOnClose(r)
  \/ IfaceClose
  \/ SignalAbort
  \/ \E call \in {"ref", "unref"} : IfaceKeepAlive(call)

SpecLife == InitLife /\ [][NextLife]_vars

\* The HTTP exchange alone: every outcome of the handler and of the reads of
\* a streamed body.
NextHttp ==
  \/ serve
  \/ NodeOnListening
  \/ \E r \in Req, u \in BOOLEAN : ClientSend(r, u)
  \/ \E r \in Req : \E c \in {Context(r), NoCall} :
       \E o \in HandlerResults : NodeOnRequest(r, c, o)
  \/ \E r \in Req, out \in ReadResults : NodeRead(r, out)
  \/ \E r \in Req, out \in ReadResults : EngineRead(r, out)
  \/ \E r \in Req : \E c \in {Context(r), NoCall} :
       \E o \in HandlerResults : DenoHandler(r, c, o)
  \/ \E r \in Req : \E c \in {Context(r), NoCall} :
       \E o \in HandlerResults : BunFetch(r, c, o)

\* The Responses the handler returns: their status and the headers it
\* appended.
Statuses == {OK, 201, InternalServerError}
HeaderLists ==
  {<<>>,
   << <<"x-custom-header", "test-value">>, <<"content-type", "text/plain">> >>,
   << <<"x-custom-header", "a">>, <<"x-custom-header", "b">> >>,
   << <<"set-cookie", "a=1">>, <<"set-cookie", "b=2">> >>}

InitHttp ==
  /\ runtime \in Runtime
  /\ wsHandlerSet \in BOOLEAN
  /\ options \in OptionsWith([status : Statuses, headers : HeaderLists])
  /\ Start

SpecHttp == Init /\ [][NextHttp]_vars

\* Exchanges answered with a Response of any of those statuses and headers.
NextHead ==
  \/ serve
  \/ NodeOnListening
  \/ \E r \in Req, u \in BOOLEAN : ClientSend(r, u)
  \/ \E r \in Req : \E c \in {Context(r), NoCall} : NodeOnRequest(r, c, "null")
  \/ \E r \in Req : \E c \in {Context(r), NoCall} : DenoHandler(r, c, "null")
  \/ \E r \in Req : \E c \in {Context(r), NoCall} : BunFetch(r, c, "null")

SpecHead == InitHttp /\ [][NextHead]_vars

\* Requests with a body, answered by a handler that echoes the body.
NextBody ==
  \/ serve
  \/ NodeOnListening
  \/ \E r \in Req, m \in Methods, b \in Bodies : ClientPost(r, m, b)
  \/ \E r \in Req : NodeOnRequest(r, NoCall, "echo")
  \/ \E r \in Req, out \in ReadResults : NodeRead(r, out)
  \/ \E r \in Req : DenoHandler(r, NoCall, "echo")
  \/ \E r \in Req : BunFetch(r, NoCall, "echo")
  \/ \E r \in Req, out \in ReadResults : EngineRead(r, out)

SpecBody == Init /\ [][NextBody]_vars

\* The bind: serve called with any combination of port, TLS, port reuse and
\* signal (aborted already or not), the port asked for being free or taken.
BindOptions ==
  {o \in OptionsWith([port : {NoPort, 8080}, signal : BOOLEAN,
                      aborted : BOOLEAN, tls : BOOLEAN, reusePort : BOOLEAN,
                      portTaken : BOOLEAN]) :
     /\ o.aborted => o.signal
     /\ o.portTaken => (o.port # NoPort)}

InitBind ==
  /\ runtime \in Runtime
  /\ wsHandlerSet = FALSE
  /\ options \in BindOptions
  /\ Start

NextBind ==
  \/ serve
  \/ NodeOnListening
  \/ NodeListenError
  \/ \E r \in Req, m \in Methods : ClientPost(r, m, <<>>)
  \/ \E r \in Req : NodeOnRequest(r, NoCall, "null")
  \/ \E r \in Req : DenoHandler(r, NoCall, "null")
  \/ \E r \in Req : BunFetch(r, NoCall, "null")
  \/ SignalAbort

SpecBind == InitBind /\ [][NextBind]_vars

\* The call of serve is made and the engine reports the outcome of a bind it
\* was asked for.
SpecBindLive ==
  /\ SpecBind
  /\ WF_vars(serve) /\ WF_vars(NodeOnListening) /\ WF_vars(NodeListenError)

\* The handle is closed or disposed while exchanges and sockets are in
\* flight.
NextDispose ==
  \/ serve
  \/ NodeOnListening
  \/ \E r \in Req, u \in BOOLEAN : ClientSend(r, u)
  \/ \E r \in Req : NodeOnConnection(r)
  \/ \E r \in Req : \E c \in {Context(r), NoCall} : NodeOnRequest(r, c, "null")
  \/ \E r \in Req : \E c \in {Context(r), NoCall} : DenoHandler(r, c, "null")
  \/ \E r \in Req : DenoOnOpen(r)
  \/ \E r \in Req : \E c \in {Context(r), NoCall} : BunFetch(r, c, "null")
  \/ \E r \in Req : BunOnOpen(r)
  \/ IfaceClose
  \/ \E kind \in {"dispose", "asyncDispose"} : IfaceDispose(kind)

SpecDispose == InitSock /\ [][NextDispose]_vars

\* The request bridge: requests of any method whose body arrives chunk by
\* chunk, or fails to, answered by a handler that returns a plain Response.
BridgeMethods == {"GET", "HEAD", "POST"}

InitBridge ==
  /\ runtime \in Runtime
  /\ wsHandlerSet = FALSE
  /\ options = DefaultOptions
  /\ Start

NextBridge ==
  \/ serve
  \/ NodeOnListening
  \/ \E r \in Req, m \in BridgeMethods, b \in Bodies : ClientStream(r, m, b)
  \/ \E r \in Req : NodeRequestEvent(r)
  \/ \E r \in Req : NodeReqData(r)
  \/ \E r \in Req : NodeReqEnd(r)
  \/ \E r \in Req : NodeReqError(r)
  \/ \E r \in Req : NodeOnRequest(r, NoCall, "null")
  \/ \E r \in Req : DenoHandler(r, NoCall, "null")
  \/ \E r \in Req : BunFetch(r, NoCall, "null")

SpecBridge == InitBridge /\ [][NextBridge]_vars

\* Every path of an exchange: the request body arrives or fails, the handler
\* returns, throws, or returns a Response whose body is locked, and a body
\* stream is read to its end or fails.
ShortBodies == {<<>>, <<StreamChunk(1)>>}
EngineResults == {"null", "stream", "throw"}
BridgeResults == EngineResults \cup {"locked"}

NextPaths ==
  \/ serve
  \/ NodeOnListening
  \/ \E r \in Req, m \in Methods, b \in ShortBodies : ClientStream(r, m, b)
  \/ \E r \in Req : NodeRequestEvent(r)
  \/ \E r \in Req : NodeReqData(r)
  \/ \E r \in Req : NodeReqEnd(r)
  \/ \E r \in Req : NodeReqError(r)
  \/ \E r \in Req, o \in BridgeResults : NodeOnRequest(r, NoCall, o)
  \/ \E r \in Req, out \in ReadResults : NodeRead(r, out)
  \/ \E r \in Req, o \in EngineResults : DenoHandler(r, NoCall, o)
  \/ \E r \in Req, o \in EngineResults : BunFetch(r, NoCall, o)
  \/ \E r \in Req, out \in ReadResults : EngineRead(r, out)

SpecPaths == InitBridge /\ [][NextPaths]_vars

\* ================================================================== claims
Events(r) == 1..Len(log[r])
Count(r, ev) == Cardinality({i \in Events(r) : log[r][i].event = ev})
Terminal == {Close, Error}
Upgraded(r) == sock[r].state # NoSocket

\* C1: on every engine the socket handler sees, per connection, one Open
\* first, then Message events, then the terminal Close/Error: the first event
\* is the only Open, and no Message follows a Close or an Error.
C1_EventOrder ==
  \A r \in Req :
    /\ \A i \in Events(r) : (log[r][i].event = Open) <=> (i = 1)
    /\ \A i, j \in Events(r) :
         (i < j /\ log[r][i].event \in Terminal) => log[r][j].event # Message

\* A connection that was opened, received a frame and was closed.
C1_Witness ==
  \E r \in Req :
    /\ Len(log[r]) >= 3
    /\ log[r][1].event = Open
    /\ log[r][2].event = Message
    /\ log[r][Len(log[r])].event = Close

\* C2: every socket event of a connection carries as context the value the
\* handler passed to upgradeToWebSocket for that connection's request.
C2_ContextThreaded ==
  \A r \in Req : \A i \in Events(r) :
    /\ req[r].called # NoCall
    /\ log[r][i].context = req[r].called

\* C3: if the handler does not call upgradeToWebSocket for a request, no
\* socket event is dispatched for that connection.
C3_NoEventWithoutUpgradeCall ==
  \A r \in Req : (req[r].called = NoCall) => (log[r] = <<>>)

\* C4: without a socket handler, a call of upgradeToWebSocket does not report
\* success and no connection is upgraded.  (The claim says more: the call
\* returns false; an exception is counted here as a failed negotiation.)
C4_NoHandlerUpgradeFails ==
  \A r \in Req :
    (~wsHandlerSet /\ req[r].called # NoCall) =>
      (req[r].ret # "true" /\ ~Upgraded(r))

\* C5: upgradeToWebSocket returns true if and only if the engine upgraded the
\* connection of that request.
C5_ReturnsHandshakeResult ==
  \A r \in Req :
    (req[r].called # NoCall) => ((req[r].ret = "true") <=> Upgraded(r))

\* C6: whenever upgradeToWebSocket has returned true for a request, the
\* handler's Response is not written to the wire.
C6_ResponseDiscarded ==
  \A r \in Req : (req[r].ret = "true") => (req[r].wire # "handler")

\* C7: readyState() on the canonical socket returns the native ready-state at
\* the time of the call: 1 inside the Open event, 3 once the socket is closed.
C7_ReadyStateLive ==
  \A r \in Req : \A i \in Events(r) :
    /\ (log[r][i].event = Open) => (log[r][i].rs = OPEN)
    /\ (sock[r].state = CLOSED) => (readyState(log[r][i].websocket, sock) = CLOSED)

\* C8 as stated: one terminal event (Close or Error) per connection, and no
\* event of any kind after it.
C8_OneTerminalEvent ==
  \A r \in Req : \A i \in Events(r) :
    (log[r][i].event \in Terminal) => (i = Len(log[r]))

\* C8 as amended: the Close event is the terminal one.  At most one Close is
\* dispatched per connection and nothing follows it (an Error event precedes
\* the Close, it does not replace it); when a socket handler was supplied, a
\* connection whose socket has closed has received exactly one Close.
C8_CloseOnceAndLast ==
  \A r \in Req :
    /\ Count(r, Close) <= 1
    /\ \A i \in Events(r) : (log[r][i].event = Close) => (i = Len(log[r]))
    /\ (wsHandlerSet /\ sock[r].state = CLOSED) => (Count(r, Close) = 1)

\* A connection that ended abnormally: its Error was followed by its Close.
C8_Witness ==
  \E r \in Req :
    /\ sock[r].state = CLOSED /\ sock[r].err
    /\ Count(r, Error) = 1
    /\ log[r][Len(log[r])].event = Close

\* C9: a socket-level error on an upgraded connection is delivered to the
\* socket handler as an Error event, and the terminal Close follows it.
C9_ErrorDelivered ==
  \A r \in Req :
    (wsHandlerSet /\ sock[r].err) =>
      /\ Count(r, Error) >= 1
      /\ \A i, j \in Events(r) :
           (log[r][i].event = Error /\ log[r][j].event = Close) => i < j

\* C10: each open connection got its own Open event, and the broadcast of a
\* Message event goes to exactly the other tracked connections, never to the
\* sender.
C10_BroadcastToOthers ==
  /\ \A r \in Req :
       (wsHandlerSet /\ sock[r].state \in {OPEN, CLOSING, CLOSED}) =>
         (Count(r, Open) = 1)
  /\ \A b \in bcasts : b.to = b.tracked \ {b.from}

\* C11: close() does not terminate exchanges in flight nor open sockets: a
\* request still unanswered when close() is called is still in flight right
\* after it, and a socket that is Open is still Open.
C11_CloseKeepsInFlight ==
  [][(listener'.closeCalls # listener.closeCalls) =>
       \A r \in Req :
         /\ (req[r].phase = "sent") => (req'[r].phase = "sent")
         /\ (sock[r].state = OPEN) => (sock'[r].state = OPEN)]_vars

\* C12: aborting the signal has the same effect as close(): from any state
\* of a running server both lead to the same server state.
C12_AbortSameAsClose ==
  (listener.resolved /\ srv \in Running) => (AbortEffect = CloseEffect)

\* C13: once the signal is aborted no new request is accepted, and a request
\* sent before the abort is not cut: it stays in flight until it is answered.
C13_AbortStopsAccepting ==
  [][(listener'.aborted) =>
       \A r \in Req :
         /\ (req[r].phase = "idle") => (req'[r].phase = "idle")
         /\ (req[r].phase = "sent") => (req'[r].phase \in {"sent", "done"})]_vars

C15_UnrefReleasesListener ==
  (listener.last # "none") => (listener.refd <=> (listener.last = "ref"))

\* C16: the promise of serve is resolved only once the listener is bound,
\* addr.port is the port bound, a requested port is the port bound, and a
\* requested port 0 gives a port other than 0.
C16_ResolvedAfterBound ==
  listener.resolved =>
    /\ srv \in Running
    /\ listener.bound # 0
    /\ listener.addr = listener.bound
    /\ (options.port \notin {NoPort, 0}) => (listener.bound = options.port)

C16_Witness ==
  /\ listener.resolved /\ options.port = 0
  /\ runtime = Node /\ listener.addr = EphemeralPort

\* C17: serve without a port binds an ephemeral port, on every engine.
C17_DefaultPortEphemeral ==
  (listener.resolved /\ options.port = NoPort) =>
    (listener.bound = EphemeralPort)

\* C18: when the handler throws, the exchange is answered with exactly one
\* response, a 500, and the server goes on serving.
C18_ThrowGives500 ==
  [][\A r \in Req :
       req'[r].threw =>
         /\ res'[r].heads = 1 /\ res'[r].status = "500"
         /\ res'[r].state = "ended"
         /\ (~req[r].threw) => (srv' = srv /\ srv' \in Running)]_vars

C18_Witness ==
  \E r \in Req :
    /\ runtime = Node /\ req[r].threw /\ req[r].called = NoCall
    /\ res[r].status = "500" /\ srv = "listening"

\* C19: when a read of the response body fails after the head was written,
\* the exchange is ended by destroying the writer.
C19_FailedStreamDestroyed ==
  \A r \in Req : res[r].srcErr => (res[r].state = "destroyed")

\* C20: a failed read of a body is not fatal: the server keeps running and
\* the other exchanges are served.
C20_FailureNotFatal ==
  \A r \in Req : res[r].srcErr => (srv \in Running)


\* C30: serve starts the implementation of the detected runtime and no
\* other: nodeServe for Node, denoServe for Deno, bunServe for Bun, and for
\* every other result of the detector none is started and nothing is bound.
C30_DispatchByRuntime ==
  /\ (srv = "init") => (listener.impl = "none")
  /\ (srv # "init") =>
       listener.impl = (CASE runtime = Node -> "nodeServe"
                          [] runtime = Deno -> "denoServe"
                          [] runtime = Bun -> "bunServe"
                          [] OTHER -> "none")
  /\ (runtime \notin {Node, Deno, Bun}) =>
       (srv \in {"init", "failed"} /\ listener = ListenerInit)
  /\ (listener.impl # "none") => (srv \notin {"init", "failed"})

C30_Witness ==
  /\ runtime = Bun /\ listener.impl = "bunServe" /\ listener.resolved
  /\ \E r \in Req : req[r].phase = "done"


\* C21: a streamed body reaches the client as one response whose body is the
\* chunks the stream has yielded, in order, none dropped or repeated, and the
\* response is ended only after the stream has reported done.
C21_StreamDelivered ==
  \A r \in Req :
    (res[r].kind = "stream") =>
      /\ res[r].heads = 1
      /\ res[r].body = Concat([i \in 1..res[r].sent |-> StreamChunk(i)])
      /\ (res[r].state = "ended") => res[r].srcDone

C21_Witness ==
  \E r \in Req :
    /\ runtime = Node /\ res[r].kind = "stream" /\ res[r].state = "ended"
    /\ res[r].sent = MaxChunks /\ Len(res[r].body) = MaxChunks

\* C22 as stated: whatever the request, the body of the echoed response is
\* the body the client sent.
C22_EchoRoundTrip ==
  \A r \in Req :
    (res[r].kind = "echo" /\ res[r].state = "ended") =>
      (res[r].body = Concat(req[r].sentBody))

\* C22: for a request whose method is not GET or HEAD, the body of the
\* Request the handler gets is the chunks sent, joined in arrival order, and
\* the echoed response carries those bytes, all of them once it has ended.
C22_EchoRoundTripWithBody ==
  \A r \in Req :
    (res[r].kind = "echo" /\ req[r].method \notin {"GET", "HEAD"}) =>
      /\ req[r].body = Concat(req[r].sentBody)
      /\ Len(res[r].body) <= Len(req[r].body)
      /\ res[r].body = SubSeq(req[r].body, 1, Len(res[r].body))
      /\ (res[r].state = "ended") => (res[r].body = Concat(req[r].sentBody))

C22_Witness ==
  \E r \in Req :
    /\ runtime = Node /\ req[r].method = "POST"
    /\ Len(req[r].sentBody) = MaxChunks
    /\ res[r].kind = "echo" /\ res[r].state = "ended"
    /\ res[r].body = Concat(req[r].sentBody)

\* C23: the status code and every header entry of the Response the handler
\* returned are on the wire of the response to a request that was not
\* upgraded.
C23_StatusAndHeadersForwarded ==
  \A r \in Req :
    (res[r].status = "handler") =>
      /\ res[r].code = options.status
      /\ HeadersEntries(options.headers) \subseteq res[r].headers


\* The canonical socket the handler holds for connection r.
Adapter(r) == IF runtime = Bun THEN bunWebsocketToRuntimeSocket(r) ELSE sock[r].wrap

\* The data of the Message events of connection r, in order.
MessageData(r) ==
  LET s == SelectSeq(log[r], LAMBDA x : x.event = Message)
  IN [i \in 1..Len(s) |-> s[i].data]

\* C25: the data of the Message events of a connection are the frames its
\* peer sent, in order, each with its payload kind and its content.
C25_PayloadKindPreserved ==
  \A r \in Req : wsHandlerSet => (MessageData(r) = sock[r].frames)

\* C26: the ready-state the canonical socket reports is one of 0..3, never
\* goes back, and is Closed(3) once the connection has closed.
C26_ReadyStateMonotonic ==
  [][\A r \in Req :
       (HasEvent(r, Open) /\ HasEvent(r, Open)') =>
         /\ readyState(Adapter(r), sock) \in RuntimeWebSocketReadyState
         /\ readyState(Adapter(r), sock)' \in RuntimeWebSocketReadyState
         /\ readyState(Adapter(r), sock) <= readyState(Adapter(r), sock)'
         /\ (sock'[r].state = CLOSED) =>
              (readyState(Adapter(r), sock)' = CLOSED)]_vars


\* What getBufferedAmount() gives on the canonical socket of connection r.
BufferedAmount(r) == getBufferedAmount(Adapter(r), sock)

\* C24: a close(code, reason) by the server with a code in 4000..4999 and a
\* reason that is not empty reaches the native close unchanged: the peer
\* observes that code and that reason.
C24_CloseCodeForwarded ==
  \A r \in Req :
    (sock[r].closeArgs.code \in 4000..4999 /\ sock[r].closeArgs.reason # "") =>
      (sock[r].peerClose = sock[r].closeArgs)

C24_Witness ==
  \E r \in Req :
    /\ runtime = Node /\ sock[r].state = CLOSED
    /\ sock[r].closeArgs.code = 4000
    /\ sock[r].peerClose = [code |-> 4000, reason |-> "Custom close reason"]

\* C27: a send() on a closed socket does not throw and nothing of it reaches
\* the peer, on any engine.
C27_SendOnClosedSilent ==
  \A r \in Req :
    /\ sock[r].threwAt = NoSocket
    /\ sock[r].peerGot <= sock[r].accepted

C27_Witness ==
  \E r \in Req :
    /\ runtime = Deno /\ sock[r].state = CLOSED
    /\ sock[r].late >= 1 /\ sock[r].accepted >= 1
    /\ sock[r].peerGot = sock[r].accepted

C29_NeverDecreasesWhileOpen ==
  [][\A r \in Req :
       (HasEvent(r, Open) /\ sock[r].state = OPEN /\ sock'[r].state = OPEN) =>
         (BufferedAmount(r)' >= BufferedAmount(r))]_vars

\* C29: while the connection stays open getBufferedAmount() is the number of
\* frames queued by send() and not yet transmitted: never negative, and
\* smaller than before only by what the peer has received in between.
C29_QueuedNotTransmitted ==
  [][\A r \in Req :
       (HasEvent(r, Open) /\ sock[r].state = OPEN /\ sock'[r].state = OPEN) =>
         /\ BufferedAmount(r)' >= 0
         /\ BufferedAmount(r)' = sock'[r].accepted - sock'[r].peerGot
         /\ (BufferedAmount(r)' < BufferedAmount(r)) =>
              (BufferedAmount(r) - BufferedAmount(r)'
                 = sock'[r].peerGot - sock[r].peerGot)]_vars

C29_Witness ==
  \E r \in Req :
    /\ runtime = Bun /\ sock[r].state = OPEN
    /\ sock[r].accepted = MaxSends /\ sock[r].peerGot >= 1
    /\ BufferedAmount(r) < sock[r].accepted


\* C31: for a runtime that is not recognized (Unknown, Browser) serve fails
\* and leaves nothing behind: no listener, no handle, no exchange, no socket.
C31_UnknownRuntimeFailsFast ==
  (runtime \in {Unknown, Browser}) =>
    /\ srv \in {"init", "failed"}
    /\ listener = ListenerInit
    /\ \A r \in Req :
         req[r] = ReqInit /\ res[r] = ResInit /\ sock[r] = SockInit
         /\ log[r] = <<>>

C31_Witness == runtime = Browser /\ srv = "failed"


\* C36: the events of one connection all carry the same canonical socket
\* object, and the events of two connections carry different ones.
C36_SocketObjectIsKey ==
  \A r, q \in Req : \A i \in Events(r), j \in Events(q) :
    (log[r][i].websocket = log[q][j].websocket) <=> (r = q)


\* C35: disposing the handle, by either disposer, does to the server what
\* close() does in the same state, and from then on no new request is
\* accepted.
C35_DisposeSameAsClose ==
  [][/\ (listener'.disposals # listener.disposals) =>
          /\ srv' = CloseEffect.srv /\ req' = CloseEffect.req
          /\ res' = CloseEffect.res /\ sock' = CloseEffect.sock
          /\ srv' = "closed"
     /\ (listener.disposals > 0) =>
          \A r \in Req : (req[r].phase = "idle") => (req'[r].phase = "idle")]_vars

C35_Witness ==
  /\ runtime = Node /\ listener.disposed = "dispose" /\ srv = "closed"
  /\ listener.closeCalls = 1
  /\ \E r \in Req : req[r].phase = "done"
  /\ \E r \in Req : req[r].phase = "idle"


\* C32: a listener that is bound for a serve called with reusePort was
\* started with port reuse, on every engine.
C32_ReusePortApplied ==
  (listener.bound # 0 /\ options.reusePort) => listener.reusePort

\* C34: the listener is an HTTPS listener exactly when options.tls was given,
\* and the Request the handler gets has the scheme https exactly then, and
\* the method and the headers of the native request.
C34_SchemeFollowsTls ==
  /\ (listener.bound # 0) => (listener.secure <=> options.tls)
  /\ \A r \in Req :
       (req[r].canon # NoRequest) =>
         /\ req[r].canon.scheme = (IF options.tls THEN "https" ELSE "http")
         /\ req[r].canon.method = req[r].method
         /\ req[r].canon.headers = NativeHeaders

C34_Witness ==
  \E r \in Req :
    /\ runtime = Node /\ options.tls /\ listener.secure
    /\ req[r].phase = "done" /\ req[r].method = "POST"
    /\ req[r].canon.scheme = "https"

\* C37: on an engine serve has an implementation for, the promise serve
\* returned is settled in the end, resolved or rejected.
C37_PromiseSettles ==
  (runtime \in {Node, Deno, Bun}) =>
    <>(listener.resolved \/ listener.rejected)

\* C38: a server started with a signal that is aborted already never
\* listens for connections and no request is ever accepted by it.
C38_PreAbortedAcceptsNothing ==
  (options.signal /\ options.aborted) =>
    /\ srv # "listening"
    /\ \A r \in Req : req[r].phase = "idle"


\* C33: on Node a request with a method other than GET and HEAD is handed to
\* the handler only after its "end", with a body made of every chunk that
\* arrived, in order; a GET or HEAD request is made at once, without body,
\* and nothing is handed over while the body is still being collected.
C33_AccumulateSealHandOff ==
  \A r \in Req :
    (runtime = Node) =>
      /\ (req[r].bridge = "accumulating") => (req[r].calls = 0)
      /\ (req[r].calls > 0 /\ req[r].method \notin {"GET", "HEAD"}) =>
           /\ req[r].ended
           /\ req[r].chunks = req[r].sentBody
           /\ req[r].body = Concat(req[r].sentBody)
      /\ (req[r].bridge = "sealed" /\ req[r].method \in {"GET", "HEAD"}) =>
           /\ ~req[r].ended /\ req[r].arrived = 0
           /\ (req[r].calls > 0) => (req[r].body = <<>>)

C33_Witness ==
  \E r \in Req :
    /\ runtime = Node /\ req[r].method = "POST" /\ req[r].calls = 1
    /\ req[r].ended /\ req[r].arrived = MaxChunks
    /\ Len(req[r].body) = MaxChunks

====
